---- MODULE Spec2Model ----
(***************************************************************************)
(* Session timing and reconnection state machine of HW Validator ver.2.    *)
(*                                                                         *)
(* One participant of one session.  The database rows (assignment_sessions *)
(* as ass, student_participants as sp, interview_states as ist) are the    *)
(* record db; now is the wall clock in milliseconds.  Every request        *)
(* handler and the worker's runChecks is one action; what a handler        *)
(* answers is the operator ...Response of the rows it reads.               *)
(***************************************************************************)
EXTENDS Integers, Sequences, FiniteSets, TLC

VARIABLES now, db, workerAt, workerRead, others, answering

vars == <<now, db, workerAt, workerRead, others, answering>>

----------------------------------------------------------------------------
(* Bounds of the model *)

\* one short step of the clock, in milliseconds
Granularity == 12500
\* number of short steps of the clock
MaxSteps == 5
\* a long gap of the clock, in milliseconds
LongGap == 1800000
\* session settings the teacher may have stored
MaxTopicCount == 2
ShortReconnectTimeout == 10
SessionDeadline == 45000
\* largest accumulated_pause_time (seconds) held by a stored interview_states row
StoredPause == 5
\* span, in milliseconds, over which a client's heartbeats are followed
AttendedSpan == 1850000
\* number of topics of a session with more than one topic after the first
LongTopicCount == 3

----------------------------------------------------------------------------
(* Program constants *)

HEARTBEAT_TIMEOUT == 15
RECONNECT_TIMEOUT == 1800
DefaultReconnectTimeout == 1800
MinTopicDuration == 60

\* SQL NULL of a timestamp column
NULL == -1

TopicDurations == {MinTopicDuration}
ReconnectTimeouts == {ShortReconnectTimeout, DefaultReconnectTimeout}
EndsAtValues == {NULL, SessionDeadline}

\* CHECK constraint of student_participants.status
StatusCheck == {"registered", "file_submitted", "interview_in_progress",
                "interview_paused", "completed", "abandoned", "timeout"}

\* a CHECK constraint that also lists the phase the worker writes for a
\* topic expired while the participant was away
PhaseCheckWithAway == {"waiting", "topic_intro", "topic_active", "topic_paused",
                       "topic_transition", "topic_expired_while_away",
                       "finalizing", "completed"}

\* CHECK constraint of interview_states.current_phase
PhaseCheck == {"waiting", "topic_intro", "topic_active", "topic_paused",
               "topic_transition", "finalizing", "completed"}

Terminal == {"completed", "abandoned", "timeout"}

Max(a, b) == IF a >= b THEN a ELSE b

\* Math.floor(ms / 1000) for ms of either sign
FloorSec(ms) == IF ms >= 0 THEN ms \div 1000 ELSE -((-ms + 999) \div 1000)

----------------------------------------------------------------------------
(* Init: the participant has just joined an active session *)

\* topicsState built by POST /start from n analysed topics
InitialTopics(n, duration) ==
  [i \in 1..n |-> [totalTime |-> duration,
                   timeLeft  |-> duration,
                   status    |-> IF i = 1 THEN "active" ELSE "pending",
                   started   |-> FALSE]]

\* column defaults of interview_states; created tells whether the row exists
NoInterviewState ==
  [created |-> FALSE, current_topic_index |-> 0, current_phase |-> "waiting",
   topics_state |-> <<>>, topic_started_at |-> NULL,
   accumulated_pause_time |-> 0]

Init ==
  /\ now = 0
  /\ workerAt = "idle"
  /\ workerRead = <<>>
  /\ others = <<>>
  /\ answering = <<>>
  /\ \E tc \in {MaxTopicCount}, td \in TopicDurations,
        rt \in ReconnectTimeouts, ea \in EndsAtValues :
       db = [ass |-> [status |-> "active", ends_at |-> ea, topic_count |-> tc,
                      topic_duration |-> td, reconnect_timeout |-> rt],
             sp  |-> [status |-> "registered", last_active_at |-> 0,
                      disconnected_at |-> NULL, analyzed_topics |-> 0],
             ist |-> NoInterviewState]

----------------------------------------------------------------------------
(* The clock, as each reader computes it *)

\* topicsState[current_topic_index] (JavaScript arrays are 0-based)
CurrentTopic(d) == d.ist.topics_state[d.ist.current_topic_index + 1]

HasCurrentTopic(d) ==
  /\ d.ist.created
  /\ d.ist.current_topic_index + 1 \in DOMAIN d.ist.topics_state

\* (Date.now() - topic_started_at) / 1000 - (accumulated_pause_time || 0),
\* kept in milliseconds
ElapsedMs(d, t) == (t - d.ist.topic_started_at) - d.ist.accumulated_pause_time * 1000

\* currentTopic.totalTime - elapsed without the clamp at 0
UnclampedRemainingMs(d, t) == CurrentTopic(d).totalTime * 1000 - ElapsedMs(d, t)

\* Math.max(0, currentTopic.totalTime - elapsed), in milliseconds
ClampedRemainingMs(d, t) == Max(0, CurrentTopic(d).totalTime * 1000 - ElapsedMs(d, t))

\* remainingTime of POST /heartbeat before the final floor; NULL is null
heartbeatRemainingMs(d, t) ==
  IF HasCurrentTopic(d)
  THEN IF d.ist.current_phase = "topic_active" /\ d.ist.topic_started_at # NULL
       THEN ClampedRemainingMs(d, t)
       ELSE IF d.ist.current_phase = "topic_transition"
            THEN CurrentTopic(d).totalTime * 1000
            ELSE NULL
  ELSE NULL

\* remaining_time of POST /heartbeat: Math.max(0, Math.floor(remainingTime || 0))
heartbeatRemaining(d, t) ==
  IF heartbeatRemainingMs(d, t) = NULL THEN 0
  ELSE Max(0, FloorSec(heartbeatRemainingMs(d, t)))

\* remaining_time of GET /state
stateRemaining(d, t) ==
  IF HasCurrentTopic(d)
  THEN IF d.ist.current_phase = "topic_active" /\ d.ist.topic_started_at # NULL
       THEN Max(0, FloorSec(ClampedRemainingMs(d, t)))
       ELSE IF d.ist.current_phase = "topic_transition"
            THEN CurrentTopic(d).totalTime
            ELSE Max(0, CurrentTopic(d).timeLeft)
  ELSE 0

\* remainingTime of POST /reconnect, in milliseconds (the handler does not
\* floor it); NULL is null
reconnectRemainingMs(d, t) ==
  IF HasCurrentTopic(d)
  THEN IF d.ist.topic_started_at # NULL
       THEN ClampedRemainingMs(d, t)
       ELSE IF CurrentTopic(d).timeLeft # 0
            THEN CurrentTopic(d).timeLeft * 1000
            ELSE CurrentTopic(d).totalTime * 1000
  ELSE NULL

\* timeLeft of checkTopicTimeouts, in seconds, the value compared with 0
workerTimeLeft(d, t) ==
  CurrentTopic(d).totalTime - FloorSec(t - d.ist.topic_started_at)

----------------------------------------------------------------------------
(* The reconciliation worker (disconnectChecker.js) *)

\* An UPDATE of interview_states is rejected by the CHECK constraint of
\* current_phase when the new phase is not listed; the row then keeps its
\* old value and the statement throws.
PhaseAllowed(phase) == phase \in PhaseCheck

\* pass 1 stopping the topic's clock when it pauses the participant
checkDisconnectedParticipantsStoppingClock(d, t) ==
  IF /\ d.ist.created
     /\ d.sp.status = "interview_in_progress"
     /\ d.ist.current_phase \in {"topic_active", "topic_intro"}
     /\ d.sp.last_active_at < t - HEARTBEAT_TIMEOUT * 1000
  THEN [d EXCEPT
          !.sp.status = "interview_paused",
          !.sp.disconnected_at =
             IF d.sp.disconnected_at # NULL THEN d.sp.disconnected_at ELSE t,
          !.ist.current_phase =
             IF d.ist.current_phase = "topic_active" THEN "topic_paused"
             ELSE d.ist.current_phase,
          !.ist.topics_state =
             [d.ist.topics_state EXCEPT
                ![d.ist.current_topic_index + 1] =
                   [@ EXCEPT !.timeLeft = Max(0, workerTimeLeft(d, t))]],
          !.ist.topic_started_at = NULL]
  ELSE d

\* pass 1: heartbeat silence -> interview_paused / topic_paused
checkDisconnectedParticipants(d, t) ==
  IF /\ d.ist.created
     /\ d.sp.status = "interview_in_progress"
     /\ d.ist.current_phase \in {"topic_active", "topic_intro"}
     /\ d.sp.last_active_at < t - HEARTBEAT_TIMEOUT * 1000
  THEN [d EXCEPT
          !.sp.status = "interview_paused",
          !.sp.disconnected_at =
             IF d.sp.disconnected_at # NULL THEN d.sp.disconnected_at ELSE t,
          !.ist.current_phase =
             IF d.ist.current_phase = "topic_active" THEN "topic_paused"
             ELSE d.ist.current_phase]
  ELSE d

\* pass 2: interview_paused for longer than RECONNECT_TIMEOUT -> abandoned
checkTimeoutParticipants(d, t) ==
  IF /\ d.sp.status = "interview_paused"
     /\ d.sp.disconnected_at # NULL
     /\ d.sp.disconnected_at < t - RECONNECT_TIMEOUT * 1000
  THEN [d EXCEPT
          !.sp.status = "abandoned",
          !.ist.current_phase =
             IF d.ist.created THEN "completed" ELSE d.ist.current_phase]
  ELSE d

\* updatedTopicsState of checkTopicTimeouts
ExpiredTopicsState(d) ==
  [d.ist.topics_state EXCEPT
     ![d.ist.current_topic_index + 1] =
        [@ EXCEPT !.timeLeft = 0, !.status = "timeout"]]

isLastTopic(d) == d.ist.current_topic_index >= d.ass.topic_count - 1

isDisconnected(d) == d.sp.status = "interview_paused"

\* the phase the disconnected, not-last branch of checkTopicTimeouts writes
AwayPhase == "topic_expired_while_away"

\* pass 3 moving a connected participant to the next topic itself, with the
\* clock of the expired topic left running
checkTopicTimeoutsKeepingClock(d, t) ==
  IF /\ d.ist.created
     /\ d.ist.current_phase \in {"topic_active", "topic_paused"}
     /\ d.sp.status \in {"interview_in_progress", "interview_paused"}
     /\ HasCurrentTopic(d)
     /\ d.ist.topic_started_at # NULL
     /\ workerTimeLeft(d, t) <= 0
  THEN IF isLastTopic(d)
       THEN [d EXCEPT !.ist.current_phase = "finalizing",
                      !.ist.topics_state = ExpiredTopicsState(d),
                      !.sp.status = "timeout"]
       ELSE IF isDisconnected(d)
            THEN IF PhaseAllowed(AwayPhase)
                 THEN [d EXCEPT !.ist.current_phase = AwayPhase,
                                !.ist.topics_state = ExpiredTopicsState(d)]
                 ELSE d
            ELSE [d EXCEPT !.ist.current_topic_index = @ + 1,
                           !.ist.topics_state = ExpiredTopicsState(d)]
  ELSE d

\* pass 3: expiry of the current topic
checkTopicTimeouts(d, t) ==
  IF /\ d.ist.created
     /\ d.ist.current_phase \in {"topic_active", "topic_paused"}
     /\ d.sp.status \in {"interview_in_progress", "interview_paused"}
     /\ HasCurrentTopic(d)
     /\ d.ist.topic_started_at # NULL
     /\ workerTimeLeft(d, t) <= 0
  THEN IF isLastTopic(d)
       THEN [d EXCEPT !.ist.current_phase = "finalizing",
                      !.ist.topics_state = ExpiredTopicsState(d),
                      !.sp.status = "timeout"]
       ELSE IF isDisconnected(d)
            THEN IF PhaseAllowed(AwayPhase)
                 THEN [d EXCEPT !.ist.current_phase = AwayPhase,
                                !.ist.topics_state = ExpiredTopicsState(d)]
                 ELSE d
            ELSE [d EXCEPT !.ist.current_phase = "topic_transition",
                           !.ist.topics_state = ExpiredTopicsState(d),
                           !.ist.topic_started_at = NULL]
  ELSE d

\* pass 4 with every participant of the WHERE clause forced to timeout
checkSessionExpiryForcingAll(d, t) ==
  IF /\ d.ass.status = "active"
     /\ d.ass.ends_at # NULL
     /\ d.ass.ends_at < t
  THEN [d EXCEPT
          !.ass.status = "closed",
          !.sp.status =
             IF d.sp.status \in {"registered", "file_submitted",
                                 "interview_in_progress", "interview_paused"}
             THEN "timeout" ELSE d.sp.status]
  ELSE d

\* pass 4: session deadline
checkSessionExpiry(d, t) ==
  IF /\ d.ass.status = "active"
     /\ d.ass.ends_at # NULL
     /\ d.ass.ends_at < t
  THEN [d EXCEPT
          !.ass.status = "closed",
          !.sp.status =
             IF d.sp.status \in {"interview_in_progress", "interview_paused"}
             THEN "timeout" ELSE d.sp.status]
  ELSE d

runChecks(d, t) ==
  checkSessionExpiry(
    checkTopicTimeouts(
      checkTimeoutParticipants(
        checkDisconnectedParticipants(d, t), t), t), t)

\* the rows a topic is running in: the clock of the current topic is on
RunningTopic(d) ==
  /\ HasCurrentTopic(d)
  /\ d.ist.current_phase \in {"topic_active", "topic_paused"}
  /\ d.ist.topic_started_at # NULL

\* the rows pass 3 of a worker tick at instant t selects from: passes 1 and 2
\* of the same tick have run
RowsAtTopicPass(d, t) ==
  checkTimeoutParticipants(checkDisconnectedParticipants(d, t), t)

\* pass 3 finds the current topic of d expired
ExpiredAtTopicPass(d, t) ==
  /\ RunningTopic(d)
  /\ d.sp.status \in {"interview_in_progress", "interview_paused"}
  /\ workerTimeLeft(d, t) <= 0

\* The statements of pass 1 taken one at a time. The pass is two awaited
\* statements outside any transaction: requests are served between them, and
\* an error of the second one is caught by the pass's try/catch.

\* WHERE clause of the first UPDATE of pass 1
disconnectedSelected(d, t) ==
  /\ d.ist.created
  /\ d.sp.status = "interview_in_progress"
  /\ d.ist.current_phase \in {"topic_active", "topic_intro"}
  /\ d.sp.last_active_at < t - HEARTBEAT_TIMEOUT * 1000

\* first UPDATE of pass 1: student_participants
pauseStatusUpdate(d, t) ==
  [d EXCEPT
     !.sp.status = "interview_paused",
     !.sp.disconnected_at =
        IF d.sp.disconnected_at # NULL THEN d.sp.disconnected_at ELSE t]

\* second UPDATE of pass 1: interview_states ... AND current_phase = 'topic_active'
pausePhaseUpdate(d) ==
  IF d.ist.created /\ d.ist.current_phase = "topic_active"
  THEN [d EXCEPT !.ist.current_phase = "topic_paused"]
  ELSE d

\* passes 2 to 4 of runChecks
remainingChecks(d, t) ==
  checkSessionExpiry(checkTopicTimeouts(checkTimeoutParticipants(d, t), t), t)

\* the first UPDATE of pass 1 has returned a row
pauseStatusWrite ==
  /\ workerAt = "idle"
  /\ disconnectedSelected(db, now)
  /\ db' = pauseStatusUpdate(db, now)
  /\ workerAt' = "pausing"
  /\ UNCHANGED <<now, workerRead, others, answering>>

\* the second UPDATE of pass 1 succeeds or throws; the tick then runs the
\* remaining passes
pausePhaseWrite ==
  /\ workerAt = "pausing"
  /\ \E succeeds \in BOOLEAN :
       db' = remainingChecks(IF succeeds THEN pausePhaseUpdate(db) ELSE db, now)
  /\ workerAt' = "idle"
  /\ UNCHANGED <<now, workerRead, others, answering>>

\* Pass 2 taken as its two statements: the UPDATE of student_participants
\* and, for each returned row, the UPDATE of interview_states.

\* WHERE clause of the UPDATE of pass 2
abandonSelected(d, t) ==
  /\ d.sp.status = "interview_paused"
  /\ d.sp.disconnected_at # NULL
  /\ d.sp.disconnected_at < t - RECONNECT_TIMEOUT * 1000

\* second UPDATE of pass 2: interview_states
abandonPhaseUpdate(d) ==
  IF d.ist.created THEN [d EXCEPT !.ist.current_phase = "completed"] ELSE d

\* pass 1 has run and the first UPDATE of pass 2 has returned a row
abandonStatusWrite ==
  /\ workerAt = "idle"
  /\ abandonSelected(checkDisconnectedParticipants(db, now), now)
  /\ db' = [checkDisconnectedParticipants(db, now) EXCEPT
              !.sp.status = "abandoned"]
  /\ workerAt' = "abandoning"
  /\ UNCHANGED <<now, workerRead, others, answering>>

\* the second UPDATE of pass 2 succeeds or throws; the tick then runs passes
\* 3 and 4
abandonPhaseWrite ==
  /\ workerAt = "abandoning"
  /\ \E succeeds \in BOOLEAN :
       db' = checkSessionExpiry(
               checkTopicTimeouts(
                 IF succeeds THEN abandonPhaseUpdate(db) ELSE db, now), now)
  /\ workerAt' = "idle"
  /\ UNCHANGED <<now, workerRead, others, answering>>

\* Pass 3 taken as its SELECT and its UPDATEs. The UPDATEs are keyed on the
\* row id alone and carry the ledger computed from the row the SELECT
\* returned.

\* the UPDATEs pass 3 issues for the row it read, applied to the stored rows d
expiryWrites(row, d) ==
  IF isLastTopic(row)
  THEN [d EXCEPT !.ist.current_phase = "finalizing",
                 !.ist.topics_state = ExpiredTopicsState(row),
                 !.sp.status = "timeout"]
  ELSE IF isDisconnected(row)
       THEN IF PhaseAllowed(AwayPhase)
            THEN [d EXCEPT !.ist.current_phase = AwayPhase,
                           !.ist.topics_state = ExpiredTopicsState(row)]
            ELSE d
       ELSE [d EXCEPT !.ist.current_phase = "topic_transition",
                      !.ist.topics_state = ExpiredTopicsState(row),
                      !.ist.topic_started_at = NULL]

\* passes 1 and 2 have run and the SELECT of pass 3 has returned an expired row
topicPassRead ==
  /\ workerAt = "idle"
  /\ ExpiredAtTopicPass(RowsAtTopicPass(db, now), now)
  /\ db' = RowsAtTopicPass(db, now)
  /\ workerRead' = <<RowsAtTopicPass(db, now)>>
  /\ UNCHANGED <<others, answering>>
  /\ workerAt' = "expiring"
  /\ UNCHANGED now

\* the UPDATEs of pass 3 for the row read, then pass 4
topicPassWrite ==
  /\ workerAt = "expiring"
  /\ db' = checkSessionExpiry(expiryWrites(workerRead[1], db), now)
  /\ workerRead' = <<>>
  /\ UNCHANGED <<others, answering>>
  /\ workerAt' = "idle"
  /\ UNCHANGED now

\* an UPDATE of the loop of pass 3 throws for row d: the phase written for a
\* disconnected participant is rejected by the CHECK of current_phase
throwsAtTopicPass(d, t) ==
  /\ ExpiredAtTopicPass(d, t)
  /\ ~isLastTopic(d)
  /\ isDisconnected(d)
  /\ ~PhaseAllowed(AwayPhase)

\* The loop of pass 3 runs inside one try block: the catch is outside the
\* loop, so the first row whose UPDATE throws ends the pass for the rows the
\* SELECT returned after it. The rows of `before` precede d in the result.
sweepRow(before, d, t) ==
  IF \E i \in DOMAIN before :
        throwsAtTopicPass(RowsAtTopicPass(before[i], t), t)
  THEN checkSessionExpiry(RowsAtTopicPass(d, t), t)
  ELSE runChecks(d, t)

\* one tick over every participant of the store: the rows of `others` come
\* before the row of db in the result of the SELECT of pass 3
sweepOthers(rows, t) ==
  [i \in DOMAIN rows |-> sweepRow(SubSeq(rows, 1, i - 1), rows[i], t)]

WorkerTick ==
  /\ db' = sweepRow(others, db, now)
  /\ others' = sweepOthers(others, now)
  /\ UNCHANGED <<now, workerAt, workerRead, answering>>

----------------------------------------------------------------------------
(* Time *)

\* The statements of one tick are issued within one instant of the model's
\* clock: time moves on between ticks.
Advance ==
  /\ workerAt = "idle"
  /\ (now % LongGap) \div Granularity < MaxSteps
  /\ now' = now + Granularity
  /\ UNCHANGED <<db, workerAt, workerRead, others, answering>>

\* one long gap during which no request is handled and no tick runs
LongSilence ==
  /\ workerAt = "idle"
  /\ now < LongGap
  /\ now' = now + LongGap
  /\ UNCHANGED <<db, workerAt, workerRead, others, answering>>

----------------------------------------------------------------------------
(* Student middleware (studentAuth.js) *)

\* authenticateStudent answers 403 instead of calling next()
authRejected(d, t) ==
  \/ d.ass.status # "active"
  \/ (d.ass.ends_at # NULL /\ d.ass.ends_at < t)
  \/ d.sp.status \in {"abandoned", "timeout"}

authRejection(op, d, t) ==
  IF d.ass.status # "active"
  THEN [op |-> op, http |-> 403, error |-> "Session not active"]
  ELSE IF d.ass.ends_at # NULL /\ d.ass.ends_at < t
       THEN [op |-> op, http |-> 403, error |-> "Session has ended"]
       ELSE [op |-> op, http |-> 403, error |-> "Cannot continue interview",
             status |-> d.sp.status]

\* authenticateStudent calling next(): last_active_at = NOW()
authenticateStudent(d, t) == [d EXCEPT !.sp.last_active_at = t]

\* checkReconnection answers 403; participant is the row authenticateStudent read
reconnectionExpired(d, t) ==
  /\ d.sp.disconnected_at # NULL
  /\ t - d.sp.disconnected_at > d.ass.reconnect_timeout * 1000

\* checkReconnection: the writes it makes to student_participants
checkReconnection(d, t) ==
  IF d.sp.disconnected_at = NULL
  THEN d
  ELSE IF reconnectionExpired(d, t)
       THEN [d EXCEPT !.sp.status = "abandoned"]
       ELSE [d EXCEPT
               !.sp.disconnected_at = NULL,
               !.sp.status =
                  IF d.sp.status = "interview_paused"
                  THEN "interview_in_progress" ELSE d.sp.status]

----------------------------------------------------------------------------
(* Request handlers of routes/interview.js *)

\* POST /upload; n is the number of topics analyzeAssignment returns
uploadResponse(d, t) ==
  IF authRejected(d, t) THEN authRejection("upload", d, t)
  ELSE IF d.sp.status # "registered"
       THEN [op |-> "upload", http |-> 400, currentStatus |-> d.sp.status]
       ELSE [op |-> "upload", http |-> 200]

uploadUpdate(d, t, n) ==
  IF authRejected(d, t) THEN d
  ELSE IF d.sp.status # "registered"
       THEN authenticateStudent(d, t)
       ELSE [authenticateStudent(d, t) EXCEPT
               !.sp.status = "file_submitted",
               !.sp.analyzed_topics = n]

upload ==
  /\ \E n \in 0..db.ass.topic_count : db' = uploadUpdate(db, now, n)
  /\ UNCHANGED <<now, workerAt, workerRead, others, answering>>

\* POST /start
startAccepted(d, t) ==
  /\ ~authRejected(d, t)
  /\ d.sp.status = "file_submitted"
  /\ d.sp.analyzed_topics # 0

startResponse(d, t) ==
  IF authRejected(d, t) THEN authRejection("start", d, t)
  ELSE IF ~startAccepted(d, t)
       THEN [op |-> "start", http |-> 400, currentStatus |-> d.sp.status]
       ELSE [op |-> "start", http |-> 200]

startUpdate(d, t) ==
  IF authRejected(d, t) THEN d
  ELSE IF ~startAccepted(d, t)
       THEN authenticateStudent(d, t)
       ELSE [authenticateStudent(d, t) EXCEPT
               !.ist = [created |-> TRUE,
                        current_topic_index |-> 0,
                        current_phase |-> "topic_active",
                        topics_state |->
                          InitialTopics(d.sp.analyzed_topics, d.ass.topic_duration),
                        topic_started_at |-> t,
                        accumulated_pause_time |-> 0],
               !.sp.status = "interview_in_progress"]

start ==
  /\ db' = startUpdate(db, now)
  /\ UNCHANGED <<now, workerAt, workerRead, others, answering>>

\* GET /state, behind authenticateStudent and checkReconnection
stateResponse(d, t) ==
  IF authRejected(d, t) THEN authRejection("state", d, t)
  ELSE IF reconnectionExpired(d, t)
       THEN [op |-> "state", http |-> 403,
             error |-> "Reconnection timeout exceeded"]
       ELSE [op |-> "state", http |-> 200,
             status |-> d.sp.status,
             current_phase |-> IF d.ist.created THEN d.ist.current_phase ELSE "none",
             remaining_time |-> stateRemaining(d, t)]

stateUpdate(d, t) ==
  IF authRejected(d, t) THEN d
  ELSE checkReconnection(authenticateStudent(d, t), t)

getState ==
  /\ db' = stateUpdate(db, now)
  /\ UNCHANGED <<now, workerAt, workerRead, others, answering>>

\* POST /heartbeat
heartbeatResponse(d, t) ==
  IF authRejected(d, t) THEN authRejection("heartbeat", d, t)
  ELSE IF ~d.ist.created
       THEN [op |-> "heartbeat", http |-> 200, status |-> d.sp.status,
             current_phase |-> "none", remaining_time |-> NULL,
             time_expired |-> FALSE]
       ELSE [op |-> "heartbeat", http |-> 200, status |-> d.sp.status,
             current_phase |-> d.ist.current_phase,
             remaining_time |-> heartbeatRemaining(d, t),
             time_expired |->
               (d.ist.current_phase = "topic_active"
                /\ d.ist.topic_started_at # NULL
                /\ heartbeatRemainingMs(d, t) <= 0)]

\* POST /heartbeat closing the topic when it computes that the time is up
heartbeatUpdateDeclaringExpiry(d, t) ==
  IF authRejected(d, t) THEN d
  ELSE IF heartbeatResponse(d, t).time_expired
       THEN [authenticateStudent(d, t) EXCEPT
               !.ist.current_phase = "topic_transition",
               !.ist.topic_started_at = NULL]
       ELSE authenticateStudent(d, t)

heartbeatUpdate(d, t) ==
  IF authRejected(d, t) THEN d ELSE authenticateStudent(d, t)

heartbeat ==
  /\ db' = heartbeatUpdate(db, now)
  /\ UNCHANGED <<now, workerAt, workerRead, others, answering>>

\* POST /answer taking answers for a paused topic too
answerAcceptedWhilePaused(d, t) ==
  /\ ~authRejected(d, t)
  /\ d.ist.created
  /\ d.ist.current_phase \in {"topic_active", "topic_paused"}

\* POST /answer
answerAccepted(d, t) ==
  /\ ~authRejected(d, t)
  /\ d.ist.created
  /\ d.ist.current_phase = "topic_active"

answerResponse(d, t) ==
  IF authRejected(d, t) THEN authRejection("answer", d, t)
  ELSE IF ~d.ist.created
       THEN [op |-> "answer", http |-> 400, error |-> "Interview not started"]
       ELSE IF d.ist.current_phase # "topic_active"
            THEN [op |-> "answer", http |-> 400,
                  currentPhase |-> d.ist.current_phase]
            ELSE [op |-> "answer", http |-> 200]

answerUpdate(d, t) ==
  IF authRejected(d, t) THEN d
  ELSE IF ~answerAccepted(d, t)
       THEN authenticateStudent(d, t)
       ELSE [authenticateStudent(d, t) EXCEPT
               !.ist.topics_state[d.ist.current_topic_index + 1].started = TRUE]

answer ==
  /\ db' = answerUpdate(db, now)
  /\ UNCHANGED <<now, workerAt, workerRead, others, answering>>

\* POST /answer taken as its SELECT and its UPDATE: the handler holds the row
\* it read while it waits for generateQuestion, and requests and worker ticks
\* are served in the meantime.

\* the SELECT of POST /answer has returned a row in phase topic_active
answerStateRead ==
  /\ answering = <<>>
  /\ answerAccepted(db, now)
  /\ db' = authenticateStudent(db, now)
  /\ answering' = <<db.ist>>
  /\ UNCHANGED <<now, workerAt, workerRead, others>>

\* UPDATE interview_states SET topics_state = $1: the ledger of the row read,
\* with started set on the topic that was current then
answerLedgerWrite ==
  /\ answering # <<>>
  /\ db' = [db EXCEPT
              !.ist.topics_state =
                 [answering[1].topics_state EXCEPT
                    ![answering[1].current_topic_index + 1].started = TRUE]]
  /\ answering' = <<>>
  /\ UNCHANGED <<now, workerAt, workerRead, others>>

\* topicsState after POST /next-topic
NextTopicsState(d) ==
  [d.ist.topics_state EXCEPT
     ![d.ist.current_topic_index + 1] =
        [@ EXCEPT !.status = "completed", !.timeLeft = 0],
     ![d.ist.current_topic_index + 2] = [@ EXCEPT !.status = "active"]]

\* POST /next-topic reaches its UPDATE
nextTopicAccepted(d, t) ==
  /\ ~authRejected(d, t)
  /\ d.ist.created
  /\ d.ist.current_topic_index + 1 < Len(d.ist.topics_state)

nextTopicResponse(d, t) ==
  IF authRejected(d, t) THEN authRejection("next-topic", d, t)
  ELSE IF ~d.ist.created
       THEN [op |-> "next-topic", http |-> 400, error |-> "Interview not started"]
       ELSE IF d.ist.current_topic_index + 1 >= Len(d.ist.topics_state)
            THEN [op |-> "next-topic", http |-> 400, error |-> "No more topics"]
            ELSE [op |-> "next-topic", http |-> 200,
                  current_topic_index |-> d.ist.current_topic_index + 1]

\* POST /next-topic leaving topic_started_at as it finds it
nextTopicUpdateKeepingClock(d, t) ==
  IF authRejected(d, t) THEN d
  ELSE IF ~nextTopicAccepted(d, t)
       THEN authenticateStudent(d, t)
       ELSE [authenticateStudent(d, t) EXCEPT
               !.ist.current_topic_index = d.ist.current_topic_index + 1,
               !.ist.current_phase = "topic_active",
               !.ist.topics_state = NextTopicsState(d),
               !.ist.accumulated_pause_time = 0]

nextTopicUpdate(d, t) ==
  IF authRejected(d, t) THEN d
  ELSE IF ~nextTopicAccepted(d, t)
       THEN authenticateStudent(d, t)
       ELSE [authenticateStudent(d, t) EXCEPT
               !.ist.current_topic_index = d.ist.current_topic_index + 1,
               !.ist.current_phase = "topic_active",
               !.ist.topics_state = NextTopicsState(d),
               !.ist.topic_started_at = t,
               !.ist.accumulated_pause_time = 0]

nextTopic ==
  /\ db' = nextTopicUpdate(db, now)
  /\ UNCHANGED <<now, workerAt, workerRead, others, answering>>

\* topicsState after POST /topic-timeout
TimedOutTopicsState(d) ==
  [d.ist.topics_state EXCEPT
     ![d.ist.current_topic_index + 1] =
        [@ EXCEPT !.status = "completed", !.timeLeft = 0]]

topicTimeoutResponse(d, t) ==
  IF authRejected(d, t) THEN authRejection("topic-timeout", d, t)
  ELSE IF ~d.ist.created
       THEN [op |-> "topic-timeout", http |-> 400,
             error |-> "Interview not started"]
       ELSE [op |-> "topic-timeout", http |-> 200,
             should_finalize |->
               (d.ist.current_topic_index + 1 >= Len(d.ist.topics_state))]

\* POST /topic-timeout advancing without looking for a next topic
topicTimeoutUpdateAlwaysAdvancing(d, t) ==
  IF authRejected(d, t) THEN d
  ELSE IF ~d.ist.created
       THEN authenticateStudent(d, t)
       ELSE [authenticateStudent(d, t) EXCEPT
               !.ist.current_topic_index = d.ist.current_topic_index + 1,
               !.ist.current_phase = "topic_transition",
               !.ist.topics_state = TimedOutTopicsState(d),
               !.ist.topic_started_at = NULL,
               !.ist.accumulated_pause_time = 0]

topicTimeoutUpdate(d, t) ==
  IF authRejected(d, t) THEN d
  ELSE IF ~d.ist.created
       THEN authenticateStudent(d, t)
       ELSE IF d.ist.current_topic_index + 1 >= Len(d.ist.topics_state)
            THEN [authenticateStudent(d, t) EXCEPT
                    !.ist.current_phase = "finalizing",
                    !.ist.topics_state = TimedOutTopicsState(d)]
            ELSE [authenticateStudent(d, t) EXCEPT
                    !.ist.current_topic_index = d.ist.current_topic_index + 1,
                    !.ist.current_phase = "topic_transition",
                    !.ist.topics_state = TimedOutTopicsState(d),
                    !.ist.topic_started_at = NULL,
                    !.ist.accumulated_pause_time = 0]

topicTimeout ==
  /\ db' = topicTimeoutUpdate(db, now)
  /\ UNCHANGED <<now, workerAt, workerRead, others, answering>>

\* POST /complete
completeResponse(d, t) ==
  IF authRejected(d, t) THEN authRejection("complete", d, t)
  ELSE [op |-> "complete", http |-> 200]

completeUpdate(d, t) ==
  IF authRejected(d, t) THEN d
  ELSE [authenticateStudent(d, t) EXCEPT
          !.ist.current_phase =
             IF d.ist.created THEN "completed" ELSE d.ist.current_phase,
          !.sp.status = "completed"]

complete ==
  /\ db' = completeUpdate(db, now)
  /\ UNCHANGED <<now, workerAt, workerRead, others, answering>>

----------------------------------------------------------------------------
(* POST /api/join/reconnect (routes/join.js) *)

\* the checks that answer 403 before the reconnection timeout is looked at
reconnectRefused(d, t) ==
  \/ d.ass.status # "active"
  \/ (d.ass.ends_at # NULL /\ d.ass.ends_at < t)
  \/ d.sp.status \in {"completed", "abandoned", "timeout"}

\* Math.floor(disconnectedDuration) reported in every phase
timeDeductedAnyPhase(d, t) ==
  IF d.sp.disconnected_at # NULL
  THEN FloorSec(t - d.sp.disconnected_at)
  ELSE 0

\* Math.floor(disconnectedDuration), reported only for a running topic
timeDeducted(d, t) ==
  IF /\ d.sp.disconnected_at # NULL
     /\ d.ist.created
     /\ d.ist.current_phase \in {"topic_active", "topic_paused"}
  THEN FloorSec(t - d.sp.disconnected_at)
  ELSE 0

reconnectResponse(d, t) ==
  IF d.ass.status # "active"
  THEN [op |-> "reconnect", http |-> 403, error |-> "Session is no longer active"]
  ELSE IF d.ass.ends_at # NULL /\ d.ass.ends_at < t
  THEN [op |-> "reconnect", http |-> 403, error |-> "Session deadline has passed"]
  ELSE IF d.sp.status = "completed"
  THEN [op |-> "reconnect", http |-> 403, error |-> "Interview already completed",
        status |-> d.sp.status]
  ELSE IF d.sp.status \in {"abandoned", "timeout"}
  THEN [op |-> "reconnect", http |-> 403, error |-> "Cannot continue this interview",
        status |-> d.sp.status]
  ELSE IF reconnectionExpired(d, t)
  THEN [op |-> "reconnect", http |-> 403, error |-> "Reconnection timeout exceeded"]
  ELSE [op |-> "reconnect", http |-> 200,
        status |-> IF d.sp.status = "interview_paused"
                   THEN "interview_in_progress" ELSE d.sp.status,
        timeDeducted |-> timeDeducted(d, t),
        currentPhase |-> IF d.ist.created THEN d.ist.current_phase ELSE "none",
        remainingTimeMs |-> reconnectRemainingMs(d, t)]

\* POST /reconnect without the comparison against reconnect_timeout
reconnectUpdateAnyTime(d, t) ==
  IF reconnectRefused(d, t) \/ d.sp.disconnected_at = NULL THEN d
  ELSE [d EXCEPT !.sp.disconnected_at = NULL,
                 !.sp.last_active_at = t,
                 !.sp.status = IF d.sp.status = "interview_paused"
                               THEN "interview_in_progress"
                               ELSE d.sp.status]

\* POST /reconnect closing the current topic itself when its time is up
reconnectUpdateDecidingExpiry(d, t) ==
  IF reconnectRefused(d, t) \/ d.sp.disconnected_at = NULL THEN d
  ELSE IF reconnectionExpired(d, t)
       THEN [d EXCEPT !.sp.status = "abandoned"]
       ELSE [d EXCEPT !.sp.disconnected_at = NULL,
                      !.sp.last_active_at = t,
                      !.sp.status = IF d.sp.status = "interview_paused"
                                    THEN "interview_in_progress"
                                    ELSE d.sp.status,
                      !.ist.current_phase =
                         IF RunningTopic(d) /\ workerTimeLeft(d, t) <= 0
                         THEN "topic_transition" ELSE @]

\* the writes of POST /reconnect
reconnectUpdate(d, t) ==
  IF reconnectRefused(d, t) \/ d.sp.disconnected_at = NULL THEN d
  ELSE IF reconnectionExpired(d, t)
       THEN [d EXCEPT !.sp.status = "abandoned"]
       ELSE [d EXCEPT !.sp.disconnected_at = NULL,
                      !.sp.last_active_at = t,
                      !.sp.status = IF d.sp.status = "interview_paused"
                                    THEN "interview_in_progress"
                                    ELSE d.sp.status]

reconnect ==
  /\ db' = reconnectUpdate(db, now)
  /\ UNCHANGED <<now, workerAt, workerRead, others, answering>>

----------------------------------------------------------------------------
(* Specification *)

Next ==
  \/ Advance
  \/ LongSilence
  \/ WorkerTick
  \/ upload
  \/ start
  \/ getState
  \/ heartbeat
  \/ answer
  \/ nextTopic
  \/ topicTimeout
  \/ complete
  \/ reconnect

Spec == Init /\ [][Next]_vars

\* The same program with the statements of the worker's disconnect pass and
\* of its topic expiry pass interleaved with the request handlers
NextInterleaved ==
  \/ Next
  \/ pauseStatusWrite
  \/ pausePhaseWrite
  \/ abandonStatusWrite
  \/ abandonPhaseWrite
  \/ topicPassRead
  \/ topicPassWrite

SpecInterleaved == Init /\ [][NextInterleaved]_vars

\* setInterval keeps firing ticks, every awaited statement of a tick returns
\* or throws, and time passes
SpecInterleavedFair ==
  /\ SpecInterleaved
  /\ WF_vars(WorkerTick)
  /\ WF_vars(pausePhaseWrite)
  /\ WF_vars(abandonPhaseWrite)
  /\ WF_vars(topicPassWrite)
  /\ WF_vars(Advance)
  /\ WF_vars(LongSilence)

\* The process ends while a tick is between two awaited statements and is
\* started again: the rows the tick was working on (result.rows) are gone, the
\* store is as the statements already issued left it, and the new process
\* begins with a tick of its own.
restart ==
  /\ workerAt # "idle"
  /\ workerAt' = "idle"
  /\ workerRead' = <<>>
  /\ UNCHANGED <<now, db, others, answering>>

NextRestarting == NextInterleaved \/ restart

SpecRestarting == Init /\ [][NextRestarting]_vars

\* The same program for a session of LongTopicCount topics without deadline
InitLongInterview ==
  /\ now = 0
  /\ workerAt = "idle"
  /\ workerRead = <<>>
  /\ others = <<>>
  /\ answering = <<>>
  /\ db = [ass |-> [status |-> "active", ends_at |-> NULL,
                    topic_count |-> LongTopicCount,
                    topic_duration |-> MinTopicDuration,
                    reconnect_timeout |-> DefaultReconnectTimeout],
           sp  |-> [status |-> "registered", last_active_at |-> 0,
                    disconnected_at |-> NULL, analyzed_topics |-> 0],
           ist |-> NoInterviewState]

SpecLongInterview == InitLongInterview /\ [][Next]_vars

NextAnswering == Next \/ answerStateRead \/ answerLedgerWrite

SpecAnswering == Init /\ [][NextAnswering]_vars

\* Spec with the worker's interval firing for ever and time passing
SpecFair ==
  /\ Spec
  /\ WF_vars(WorkerTick)
  /\ WF_vars(Advance)
  /\ WF_vars(LongSilence)

\* The same program started on a stored interview whose row was written
\* before the pause bookkeeping was retired: accumulated_pause_time is an
\* unconstrained INT column, and no statement of this code base clears it
\* before POST /next-topic or POST /topic-timeout.
InitStored ==
  /\ now = 0
  /\ workerAt = "idle"
  /\ workerRead = <<>>
  /\ others = <<>>
  /\ answering = <<>>
  /\ \E td \in TopicDurations, rt \in ReconnectTimeouts, ea \in EndsAtValues,
        n \in 1..MaxTopicCount, acc \in 0..StoredPause :
       db = [ass |-> [status |-> "active", ends_at |-> ea,
                      topic_count |-> MaxTopicCount,
                      topic_duration |-> td, reconnect_timeout |-> rt],
             sp  |-> [status |-> "interview_in_progress", last_active_at |-> 0,
                      disconnected_at |-> NULL, analyzed_topics |-> n],
             ist |-> [created |-> TRUE, current_topic_index |-> 0,
                      current_phase |-> "topic_active",
                      topics_state |-> InitialTopics(n, td),
                      topic_started_at |-> 0,
                      accumulated_pause_time |-> acc]]

SpecStored == InitStored /\ [][Next]_vars

\* Two participants: the one the requests of the model come from, and another
\* one who opened the first topic and then closed the browser. The row of the
\* silent participant comes first in the results of the worker's SELECTs.
SilentParticipant ==
  [ass |-> [status |-> "active", ends_at |-> NULL,
            topic_count |-> MaxTopicCount,
            topic_duration |-> MinTopicDuration,
            reconnect_timeout |-> DefaultReconnectTimeout],
   sp  |-> [status |-> "interview_in_progress", last_active_at |-> 0,
            disconnected_at |-> NULL, analyzed_topics |-> MaxTopicCount],
   ist |-> [created |-> TRUE, current_topic_index |-> 0,
            current_phase |-> "topic_active",
            topics_state |-> InitialTopics(MaxTopicCount, MinTopicDuration),
            topic_started_at |-> 0,
            accumulated_pause_time |-> 0]]

InitCrowded ==
  /\ now = 0
  /\ workerAt = "idle"
  /\ workerRead = <<>>
  /\ others = <<SilentParticipant>>
  /\ answering = <<>>
  /\ \E td \in TopicDurations, rt \in ReconnectTimeouts, ea \in EndsAtValues :
       db = [ass |-> [status |-> "active", ends_at |-> ea,
                      topic_count |-> MaxTopicCount,
                      topic_duration |-> td, reconnect_timeout |-> rt],
             sp  |-> [status |-> "registered", last_active_at |-> 0,
                      disconnected_at |-> NULL, analyzed_topics |-> 0],
             ist |-> NoInterviewState]

SpecCrowded == InitCrowded /\ [][Next]_vars

\* A client whose page stays open: its heartbeat timer fires every step of
\* the clock, except for one gap early on during which the requests do not
\* arrive. The page sends no other request.

\* one step of the clock, at the end of which a heartbeat arrives
Beat ==
  /\ workerAt = "idle"
  /\ now < AttendedSpan
  /\ now' = now + Granularity
  /\ db' = heartbeatUpdate(db, now + Granularity)
  /\ UNCHANGED <<workerAt, workerRead, others, answering>>

\* the one gap: two steps of the clock without a heartbeat
Gap ==
  /\ workerAt = "idle"
  /\ now < MaxSteps * Granularity
  /\ db.sp.last_active_at = now
  /\ db.sp.disconnected_at = NULL
  /\ now' = now + 2 * Granularity
  /\ UNCHANGED <<db, workerAt, workerRead, others, answering>>

\* the interview as POST /start leaves it
InitAttentive ==
  /\ now = 0
  /\ workerAt = "idle"
  /\ workerRead = <<>>
  /\ others = <<>>
  /\ answering = <<>>
  /\ db = SilentParticipant

NextAttentive == Beat \/ Gap \/ WorkerTick

SpecAttentive == InitAttentive /\ [][NextAttentive]_vars

TypeOK ==
  /\ workerAt \in {"idle", "pausing", "abandoning", "expiring"}
  /\ Len(workerRead) = IF workerAt = "expiring" THEN 1 ELSE 0
  /\ db.sp.status \in StatusCheck
  /\ db.ist.current_phase \in PhaseCheck
  /\ now >= 0

----------------------------------------------------------------------------
(* Claims *)

\* C1: a participant whose status is completed, abandoned or timeout keeps
\* that status in every step of every handler and of the worker.
C1_TerminalAbsorbing ==
  [][db.sp.status \in Terminal => db'.sp.status = db.sp.status]_vars

\* C2: at every instant the remaining time each reader reports, and every
\* timeLeft stored in the ledger, is never negative; and for the stored rows
\* (so for a fixed topic_started_at) the remaining time each reader reports
\* at a later instant is never more than the one it reports now.
C2_NonNegative(d, t) ==
  /\ heartbeatRemaining(d, t) >= 0
  /\ stateRemaining(d, t) >= 0
  /\ reconnectRemainingMs(d, t) = NULL \/ reconnectRemainingMs(d, t) >= 0
  /\ \A i \in DOMAIN d.ist.topics_state : d.ist.topics_state[i].timeLeft >= 0

C2_LaterInstants == {now + Granularity, now + 2 * Granularity, now + LongGap}

C2_ClockNonNegativeMonotone ==
  /\ C2_NonNegative(db, now)
  /\ \A t2 \in C2_LaterInstants :
       /\ C2_NonNegative(db, t2)
       /\ heartbeatRemaining(db, t2) <= heartbeatRemaining(db, now)
       /\ stateRemaining(db, t2) <= stateRemaining(db, now)
       /\ reconnectRemainingMs(db, t2) <= reconnectRemainingMs(db, now)

\* C2 witness: the clock of a running topic has run past the topic's total
\* time, so the remaining time is held at 0
C2_Witness ==
  /\ db.ist.created
  /\ db.ist.current_phase \in {"topic_active", "topic_paused"}
  /\ db.ist.topic_started_at # NULL
  /\ now - db.ist.topic_started_at > CurrentTopic(db).totalTime * 1000
  /\ heartbeatRemaining(db, now) = 0
  /\ reconnectRemainingMs(db, now) = 0

\* the rows as they are in the run in which the participant stayed connected:
\* same ledger, same topic_started_at, never paused
C3_Connected(d) ==
  [d EXCEPT !.sp.status = "interview_in_progress",
            !.sp.disconnected_at = NULL,
            !.ist.current_phase = "topic_active"]

\* C3: for the same topic_started_at and the same instant, the remaining time
\* of the current topic is the same whether the worker paused the participant
\* (who may have reconnected since) or the participant stayed connected, for
\* every reader: heartbeat, GET /state, reconnect and the worker.
C3_SameRemainingConnectedOrNot ==
  RunningTopic(db) =>
    /\ heartbeatRemaining(db, now) = heartbeatRemaining(C3_Connected(db), now)
    /\ stateRemaining(db, now) = stateRemaining(C3_Connected(db), now)
    /\ reconnectRemainingMs(db, now) = reconnectRemainingMs(C3_Connected(db), now)
    /\ workerTimeLeft(db, now) = workerTimeLeft(C3_Connected(db), now)

\* C4: in phase topic_active or topic_paused the heartbeat response and the
\* reconnect response report the same remaining time (compared in whole
\* seconds), and the worker finds the topic expired exactly when that
\* remaining time is 0.
C4_ReadersAgree ==
  RunningTopic(db) =>
    /\ heartbeatRemaining(db, now) = FloorSec(reconnectRemainingMs(db, now))
    /\ (workerTimeLeft(db, now) <= 0) <=> (reconnectRemainingMs(db, now) = 0)

\* the same rows with accumulated_pause_time 0
C5_Zeroed(d) == [d EXCEPT !.ist.accumulated_pause_time = 0]

C6_SessionOpen(d, t) ==
  /\ d.ass.status = "active"
  /\ ~(d.ass.ends_at # NULL /\ d.ass.ends_at < t)

\* C6 (as stated): a reconnection attempted strictly after reconnect_timeout
\* seconds since disconnected_at is rejected and always leaves the participant
\* abandoned.
C6_LateReconnectionAbandons ==
  reconnectionExpired(db, now) =>
    /\ reconnectResponse(db, now).http = 403
    /\ stateResponse(db, now).http = 403
    /\ reconnectUpdate(db, now).sp.status = "abandoned"
    /\ stateUpdate(db, now).sp.status = "abandoned"

\* C6 (amended): a reconnection (POST /reconnect, or the reconnection check of
\* GET /state) attempted strictly after reconnect_timeout seconds since
\* disconnected_at is always rejected and never restores
\* interview_in_progress, whatever the worker did in between; it leaves the
\* participant abandoned when the participant was not already completed,
\* abandoned or timeout and the session is still active and before its
\* deadline.
C6_LateReconnectionRejected ==
  reconnectionExpired(db, now) =>
    /\ reconnectResponse(db, now).http = 403
    /\ stateResponse(db, now).http = 403
    /\ reconnectUpdate(db, now).sp.status # "interview_in_progress"
    /\ stateUpdate(db, now).sp.status # "interview_in_progress"
    /\ (db.sp.status \notin Terminal /\ C6_SessionOpen(db, now)) =>
         /\ reconnectUpdate(db, now).sp.status = "abandoned"
         /\ stateUpdate(db, now).sp.status = "abandoned"

\* C6 witness: a paused participant was abandoned by a reconnection handler
\* (the worker's abandonment also sets the phase to completed), after the
\* short reconnection window and long before the worker's own 1800 s
C6_Witness ==
  /\ db.sp.status = "abandoned"
  /\ db.ist.created
  /\ db.ist.current_phase = "topic_paused"
  /\ reconnectionExpired(db, now)
  /\ now - db.sp.disconnected_at < RECONNECT_TIMEOUT * 1000
  /\ reconnectResponse(db, now).http = 403

\* C7: when the worker's expiry pass finds the current topic of a paused
\* participant expired and more topics remain, it sets the phase to
\* topic_expired_while_away and leaves current_topic_index alone.
C7_ExpiredWhileAway ==
  LET d == RowsAtTopicPass(db, now)
      e == checkTopicTimeouts(d, now)
  IN  (/\ ExpiredAtTopicPass(d, now)
       /\ d.sp.status = "interview_paused"
       /\ d.ist.current_topic_index + 1 < Len(d.ist.topics_state))
      => /\ e.ist.current_phase = "topic_expired_while_away"
         /\ e.ist.current_topic_index = d.ist.current_topic_index

\* C8: the client's request to move to the next topic changes the interview
\* state only in phase topic_expired_while_away; in every other phase it is
\* rejected and changes nothing.
C8_AdvanceOnlyWhenExpiredAway ==
  (db.ist.created /\ db.ist.current_phase # AwayPhase) =>
    /\ nextTopicUpdate(db, now).ist = db.ist
    /\ nextTopicResponse(db, now).http # 200

\* C9: when the worker's expiry pass finds the topic at index
\* Len(topics) - 1 expired, the participant becomes timeout, the topic is
\* marked timeout, and a later reconnection is refused.
C9_LastTopicExpiry ==
  LET d == RowsAtTopicPass(db, now)
      e == checkTopicTimeouts(d, now)
  IN  (/\ ExpiredAtTopicPass(d, now)
       /\ d.ist.current_topic_index = Len(d.ist.topics_state) - 1)
      => /\ e.sp.status = "timeout"
         /\ CurrentTopic(e).status = "timeout"
         /\ reconnectResponse(e, now).http = 403

\* C10: when the worker's expiry pass finds the current topic of a connected
\* participant expired and more topics remain, it marks the topic completed
\* with timeLeft 0, sets the phase to topic_transition, clears
\* topic_started_at and leaves current_topic_index alone.
C10_ConnectedExpiry ==
  LET d == RowsAtTopicPass(db, now)
      e == checkTopicTimeouts(d, now)
  IN  (/\ ExpiredAtTopicPass(d, now)
       /\ d.sp.status = "interview_in_progress"
       /\ d.ist.current_topic_index + 1 < Len(d.ist.topics_state))
      => /\ CurrentTopic(e).status = "completed"
         /\ CurrentTopic(e).timeLeft = 0
         /\ e.ist.current_phase = "topic_transition"
         /\ e.ist.topic_started_at = NULL
         /\ e.ist.current_topic_index = d.ist.current_topic_index

\* C11: after an accepted POST /next-topic the new current topic has
\* topic_started_at = now, status active, and every reader gives its full
\* totalTime as remaining time, whatever the phase, the connection status and
\* the age of the previous topic's clock were before the request.
C11_FreshClockOnNextTopic ==
  nextTopicAccepted(db, now) =>
    LET e == nextTopicUpdate(db, now) IN
      /\ e.ist.current_topic_index = db.ist.current_topic_index + 1
      /\ e.ist.topic_started_at = now
      /\ e.ist.current_phase = "topic_active"
      /\ CurrentTopic(e).status = "active"
      /\ heartbeatRemaining(e, now) = CurrentTopic(e).totalTime
      /\ stateRemaining(e, now) = CurrentTopic(e).totalTime
      /\ reconnectRemainingMs(e, now) = CurrentTopic(e).totalTime * 1000
      /\ workerTimeLeft(e, now) = CurrentTopic(e).totalTime

\* C11 witness: the second topic has just been started by POST /next-topic,
\* after the whole time of the first topic had gone by, and has its full time
C11_Witness ==
  /\ db.ist.created
  /\ db.ist.current_topic_index = 1
  /\ db.ist.current_phase = "topic_active"
  /\ db.ist.topic_started_at = now
  /\ now > db.ist.topics_state[1].totalTime * 1000
  /\ db.ist.topics_state[1].status = "completed"
  /\ CurrentTopic(db).status = "active"
  /\ heartbeatRemaining(db, now) = CurrentTopic(db).totalTime

\* C12: at a worker tick, a participant who is interview_paused when the
\* abandonment pass runs becomes abandoned exactly when now - disconnected_at
\* exceeds the reconnect_timeout of the participant's session.
C12_AbandonAtSessionTimeout ==
  LET d == checkDisconnectedParticipants(db, now)
      e == checkTimeoutParticipants(d, now)
  IN  (d.sp.status = "interview_paused" /\ d.sp.disconnected_at # NULL)
      => ((e.sp.status = "abandoned") <=>
          (now - d.sp.disconnected_at > d.ass.reconnect_timeout * 1000))

\* C13: every step that takes a participant from interview_in_progress in
\* phase topic_active to interview_paused also takes the phase to
\* topic_paused, so that interview_paused with topic_active is never left
\* behind by the disconnect pass, whether or not its second write succeeds.
C13_PauseAtomic ==
  [][(/\ db.sp.status = "interview_in_progress"
      /\ db.ist.current_phase = "topic_active"
      /\ db'.sp.status = "interview_paused")
     => db'.ist.current_phase = "topic_paused"]_vars

\* what the active -> paused transition may change in rows d at instant t:
\* the status, the phase, and disconnected_at when it was null
C14_Paused(d, t) ==
  [d EXCEPT
     !.sp.status = "interview_paused",
     !.sp.disconnected_at = IF @ = NULL THEN t ELSE @,
     !.ist.current_phase = "topic_paused"]

\* the stored rows with disconnected_at already stamped at an earlier instant
C14_EarlierStamp(d) == [d EXCEPT !.sp.disconnected_at = 0]

C15_ReconnectResumes ==
  (/\ db.sp.status = "interview_paused"
   /\ db.ist.current_phase = "topic_paused"
   /\ db.sp.disconnected_at # NULL
   /\ reconnectResponse(db, now).http = 200)
  => LET e == reconnectUpdate(db, now) IN
       /\ e.sp.disconnected_at = NULL
       /\ e.sp.status = "interview_in_progress"
       /\ e.ist.topic_started_at = db.ist.topic_started_at
       /\ e.ist.current_topic_index = db.ist.current_topic_index
       /\ e.ist.current_phase = "topic_active"
       /\ answerAccepted(e, now)

\* C16: for a participant whose status is completed, abandoned or timeout,
\* POST /reconnect, POST /upload and POST /answer are all rejected and leave
\* the participant's status and the interview state as they were.
C16_TerminalRejected ==
  db.sp.status \in Terminal =>
    /\ reconnectResponse(db, now).http # 200
    /\ uploadResponse(db, now).http # 200
    /\ answerResponse(db, now).http # 200
    /\ reconnectUpdate(db, now) = db
    /\ \A n \in 0..db.ass.topic_count :
         /\ uploadUpdate(db, now, n).sp.status = db.sp.status
         /\ uploadUpdate(db, now, n).ist = db.ist
    /\ answerUpdate(db, now).sp.status = db.sp.status
    /\ answerUpdate(db, now).ist = db.ist

\* C17: a successful POST /reconnect reports show_transition_page, true
\* exactly when the phase is topic_expired_while_away and false in every
\* other phase, and with it the index of the topic the client will advance to.
C17_TransitionScreenReported ==
  reconnectResponse(db, now).http = 200 =>
    /\ "show_transition_page" \in DOMAIN reconnectResponse(db, now)
    /\ reconnectResponse(db, now).show_transition_page
         = (db.ist.created /\ db.ist.current_phase = AwayPhase)
    /\ reconnectResponse(db, now).show_transition_page =>
         /\ "next_topic_index" \in DOMAIN reconnectResponse(db, now)
         /\ reconnectResponse(db, now).next_topic_index
              = db.ist.current_topic_index + 1

\* an accepted POST /reconnect of a participant whose disconnected_at is set
C18_ReconnectAfterAbsence ==
  /\ db.sp.disconnected_at # NULL
  /\ reconnectResponse(db, now).http = 200

C20_IndexInRange ==
  db.ist.created =>
    /\ 0 <= db.ist.current_topic_index
    /\ db.ist.current_topic_index < Len(db.ist.topics_state)

\* C20 witness: the last of several topics has been timed out by the client:
\* the index stands on the last ledger entry and was not advanced past it
C20_Witness ==
  /\ db.ist.created
  /\ Len(db.ist.topics_state) = MaxTopicCount
  /\ db.ist.current_topic_index = Len(db.ist.topics_state) - 1
  /\ db.ist.current_phase = "finalizing"
  /\ CurrentTopic(db).status = "completed"
  /\ CurrentTopic(db).timeLeft = 0

\* the phase, the index and the ledger of rows d
C21_Outcome(d) ==
  <<d.ist.current_phase, d.ist.current_topic_index, d.ist.topics_state>>

\* C21: for an expired topic, the client's POST /topic-timeout, the worker's
\* expiry pass, both in either order, and the notification sent twice all
\* lead to the same phase, the same current_topic_index and the same ledger.
C21_TimeoutIdempotent ==
  (ExpiredAtTopicPass(db, now) /\ ~authRejected(db, now)) =>
    /\ C21_Outcome(topicTimeoutUpdate(db, now))
         = C21_Outcome(checkTopicTimeouts(db, now))
    /\ C21_Outcome(topicTimeoutUpdate(checkTopicTimeouts(db, now), now))
         = C21_Outcome(checkTopicTimeouts(db, now))
    /\ C21_Outcome(checkTopicTimeouts(topicTimeoutUpdate(db, now), now))
         = C21_Outcome(checkTopicTimeouts(db, now))
    /\ C21_Outcome(topicTimeoutUpdate(topicTimeoutUpdate(db, now), now))
         = C21_Outcome(topicTimeoutUpdate(db, now))

\* C22: a write of the worker's expiry pass changes the interview state only
\* if the phase, the index and the participant status it read still hold;
\* otherwise it changes nothing, so no handler's update is overwritten.
C22_ConditionalWrites ==
  [][(/\ workerAt = "expiring"
      /\ workerAt' = "idle"
      /\ \/ db.ist.current_phase # workerRead[1].ist.current_phase
         \/ db.ist.current_topic_index # workerRead[1].ist.current_topic_index
         \/ db.sp.status # workerRead[1].sp.status)
     => db'.ist = db.ist]_vars

\* C23: a tick runs its passes only when no earlier tick is still running its
\* own: while the worker is between two statements of a tick, no other tick
\* changes the rows.
C23_SingleSweep ==
  [][(/\ db' = runChecks(db, now)
      /\ UNCHANGED <<now, workerAt, workerRead>>)
     => workerAt = "idle"]_vars

\* C24: once the abandonment pass has written the participant's status, the
\* transition is completed by this or a later tick even if a write inside
\* the pass fails: the interview state's phase eventually becomes completed.
C24_AbandonmentCompleted ==
  [](workerAt = "abandoning" => <>(db.ist.current_phase = "completed"))

\* C25: a tick of the worker applies to a participant the transitions it
\* would apply were this participant alone in the store: the failing write
\* of another participant's row does not hold them back
C25_ParticipantsIndependent ==
  sweepRow(others, db, now) = runChecks(db, now)

\* the row pass 4 of a tick at this instant finds: passes 1 to 3 have run
C26_AtExpiryPass == checkTopicTimeouts(RowsAtTopicPass(db, now), now)

\* the session of the participant is past its deadline and still active
C26_SessionDue ==
  /\ C26_AtExpiryPass.ass.status = "active"
  /\ C26_AtExpiryPass.ass.ends_at # NULL
  /\ C26_AtExpiryPass.ass.ends_at < now

\* C26 as stated: a tick past the deadline closes the session and sets every
\* participant who is not in a terminal status to timeout
C26_AllNonTerminalTimedOut ==
  C26_SessionDue =>
    /\ runChecks(db, now).ass.status = "closed"
    /\ runChecks(db, now).sp.status =
         IF C26_AtExpiryPass.sp.status \in Terminal
         THEN C26_AtExpiryPass.sp.status ELSE "timeout"

\* C26: a tick past the deadline closes the session, sets the participants
\* whose interview is in progress or paused to timeout, and leaves the
\* status of every other participant and the interview state as they are
C26_RunningInterviewsTimedOut ==
  C26_SessionDue =>
    /\ runChecks(db, now).ass.status = "closed"
    /\ runChecks(db, now).sp.status =
         IF C26_AtExpiryPass.sp.status \in
              {"interview_in_progress", "interview_paused"}
         THEN "timeout" ELSE C26_AtExpiryPass.sp.status
    /\ runChecks(db, now).ist = C26_AtExpiryPass.ist

\* the session was closed under an interview that was still running
C26_Witness ==
  /\ db.ass.status = "closed"
  /\ db.sp.status = "timeout"
  /\ db.ist.current_phase \in {"topic_active", "topic_paused", "topic_transition"}

\* the participant is at the last topic of the ledger: no earlier topic is
\* pending or running
C27_AtLastTopic ==
  /\ db.ist.created
  /\ db.ist.current_topic_index + 1 = Len(db.ist.topics_state)

\* C27: the status becomes completed only by POST /complete, only from
\* interview_in_progress and only when the participant is at the last topic
C27_CompletedOnlyWhenDone ==
  [][(db.sp.status # "completed" /\ db'.sp.status = "completed")
     => /\ db' = completeUpdate(db, now)
        /\ db.sp.status = "interview_in_progress"
        /\ C27_AtLastTopic]_vars

\* C28: once the participant of an interview has been ended by force (status
\* timeout or abandoned), the phase of the interview state eventually
\* becomes completed
C28_ForcedEndCompletes ==
  (db.ist.created /\ db.sp.status \in {"timeout", "abandoned"})
    ~> (db.ist.current_phase = "completed")

\* what the tick that is under way writes when it is left to finish: the
\* statement it is waiting for succeeds and the remaining passes run
C29_TickFinished ==
  IF workerAt = "pausing"
  THEN remainingChecks(pausePhaseUpdate(db), now)
  ELSE IF workerAt = "abandoning"
       THEN checkSessionExpiry(
              checkTopicTimeouts(abandonPhaseUpdate(db), now), now)
       ELSE checkSessionExpiry(expiryWrites(workerRead[1], db), now)

\* C29: wherever a restart can happen, the first tick of the restarted
\* process leaves the store as the interrupted tick would have left it
C29_RestartLosesNothing ==
  workerAt # "idle" => runChecks(db, now) = C29_TickFinished

\* the tick at this instant is the one that finds the heartbeat gap above
\* HEARTBEAT_TIMEOUT, and the participant's topic, which is not the last
\* one, has run out by the same instant
C30_PausedAndExpiredInOneTick ==
  /\ disconnectedSelected(db, now)
  /\ db.ist.current_phase = "topic_active"
  /\ ExpiredAtTopicPass(RowsAtTopicPass(db, now), now)
  /\ ~isLastTopic(db)
  /\ db.ist.current_topic_index + 1 < Len(db.ist.topics_state)

\* C30: the passes of a tick run in the order disconnect detection,
\* abandonment, topic expiry, session expiry, so the tick that pauses a
\* participant whose non-last topic has expired leaves the phase
\* topic_expired_while_away, and not topic_transition
C30_PausedBeforeRouted ==
  C30_PausedAndExpiredInOneTick =>
    runChecks(db, now).ist.current_phase = AwayPhase

\* C31: a worker tick run a second time at the same instant, with no request
\* in between, changes nothing: no transition is applied twice,
\* disconnected_at is not stamped again and the topic index does not move
C31_TickIdempotent ==
  runChecks(runChecks(db, now), now) = runChecks(db, now)

\* a tick has just paused the participant at this instant, and a further
\* tick would find the expired topic of the paused participant again
C31_Witness ==
  /\ db.sp.status = "interview_paused"
  /\ db.sp.disconnected_at = now
  /\ db.ist.current_phase = "topic_paused"
  /\ ExpiredAtTopicPass(db, now)
  /\ runChecks(db, now) = db

\* a reconnect inside the window of a participant whose current topic has
\* no time left at the reconnection instant
C32_ReconnectOnExpiredTopic ==
  /\ db.sp.disconnected_at # NULL
  /\ reconnectResponse(db, now).http = 200
  /\ RunningTopic(db)
  /\ workerTimeLeft(db, now) <= 0

\* C32: POST /reconnect, answered 200 or 403, leaves the interview state as
\* it is, also when the current topic has no time left; the tick that
\* follows the reconnect closes the topic (topic_transition, or finalizing
\* for the last topic) and marks its ledger entry
C32_ReconnectNeverDecidesExpiry ==
  /\ reconnectUpdate(db, now).ist = db.ist
  /\ C32_ReconnectOnExpiredTopic =>
       LET e == runChecks(reconnectUpdate(db, now), now) IN
         /\ e.ist.current_phase \in {"topic_transition", "finalizing"}
         /\ CurrentTopic(e).status = "timeout"
         /\ CurrentTopic(e).timeLeft = 0

\* the participant has just reconnected in time, the topic has run out, and
\* the interview state is still that of the running topic
C32_Witness ==
  /\ db.sp.status = "interview_in_progress"
  /\ db.sp.disconnected_at = NULL
  /\ db.sp.last_active_at = now
  /\ db.ist.current_phase = "topic_paused"
  /\ RunningTopic(db)
  /\ workerTimeLeft(db, now) <= 0

\* C33: POST /heartbeat changes last_active_at and nothing else: status,
\* disconnected_at and the interview state stay as they are, also when the
\* handler reports time_expired
C33_HeartbeatOnlyTouchesLastActive ==
  /\ heartbeatUpdate(db, now).ist = db.ist
  /\ heartbeatUpdate(db, now).ass = db.ass
  /\ heartbeatUpdate(db, now).sp =
       [db.sp EXCEPT !.last_active_at =
          IF authRejected(db, now) THEN @ ELSE now]

\* a heartbeat has just been answered with time_expired, and the topic is
\* still the running one
C33_Witness ==
  /\ db.sp.last_active_at = now
  /\ db.sp.status = "interview_in_progress"
  /\ db.ist.created
  /\ db.ist.current_phase = "topic_active"
  /\ heartbeatResponse(db, now).http = 200
  /\ heartbeatResponse(db, now).time_expired

\* C34: POST /answer is accepted only in phase topic_active; in any other
\* phase it leaves the interview state as it is and is not answered 200, and
\* a request that passes authenticateStudent is answered 400 with the
\* current phase
C34_AnswerOnlyInTopicActive ==
  db.ist.created =>
    /\ answerResponse(db, now).http = 200
         => db.ist.current_phase = "topic_active"
    /\ db.ist.current_phase # "topic_active" =>
         /\ answerUpdate(db, now).ist = db.ist
         /\ answerResponse(db, now).http # 200
         /\ ~authRejected(db, now) =>
              /\ answerResponse(db, now).http = 400
              /\ answerResponse(db, now).currentPhase = db.ist.current_phase

\* an answer sent for a paused topic that was never answered before has just
\* been refused: the ledger entry is still unstarted
C34_Witness ==
  /\ db.ist.created
  /\ db.ist.current_phase = "topic_paused"
  /\ db.sp.last_active_at = now
  /\ db.sp.disconnected_at # NULL
  /\ db.sp.disconnected_at < now
  /\ ~CurrentTopic(db).started
  /\ answerResponse(db, now).http = 400
  /\ answerResponse(db, now).currentPhase = "topic_paused"

\* C35: POST /next-topic moves to the next topic only in phase
\* topic_transition: while the clock of the current topic is running, or in
\* topic_expired_while_away, finalizing or completed, it leaves
\* current_topic_index and topic_started_at as they are
C35_NextTopicOnlyInTransition ==
  (/\ db.ist.created
   /\ db.ist.current_phase \in {"topic_active", "topic_paused", AwayPhase,
                                  "finalizing", "completed"})
  => /\ nextTopicUpdate(db, now).ist.current_topic_index =
          db.ist.current_topic_index
     /\ nextTopicUpdate(db, now).ist.topic_started_at =
          db.ist.topic_started_at

\* C36: no topic is skipped: when the client reports the expiry of the
\* running topic i with POST /topic-timeout and then calls POST /next-topic,
\* the interview is at topic i + 1
C36_NoTopicSkipped ==
  LET a == topicTimeoutUpdate(db, now)
      b == nextTopicUpdate(a, now)
  IN  (/\ db.ist.created
       /\ db.ist.current_phase = "topic_active"
       /\ RunningTopic(db)
       /\ workerTimeLeft(db, now) <= 0
       /\ ~authRejected(db, now)
       /\ a.ist.current_phase = "topic_transition"
       /\ nextTopicResponse(a, now).http = 200)
      => b.ist.current_topic_index = db.ist.current_topic_index + 1

\* C37: a participant whose heartbeats keep arriving, at most one step of
\* the clock apart but for one short gap, is never made abandoned by the
\* worker
C37_AttentiveNeverAbandoned ==
  db.sp.status # "abandoned"

\* C38: status and phase stay coupled: while the participant is in no
\* terminal status, phase topic_paused occurs only under status
\* interview_paused, and status interview_paused only with phase
\* topic_paused or topic_expired_while_away
C38_StatusPhaseCoupled ==
  (db.ist.created /\ db.sp.status \notin Terminal) =>
    /\ db.ist.current_phase = "topic_paused"
         => db.sp.status = "interview_paused"
    /\ db.sp.status = "interview_paused"
         => db.ist.current_phase \in {"topic_paused", AwayPhase}

\* C39: the ledger only moves forward: an entry that is completed or timeout
\* with timeLeft 0 stays completed or timeout with timeLeft 0 in every step
C39_LedgerMovesForward ==
  [][\A i \in DOMAIN db.ist.topics_state :
       (/\ db.ist.topics_state[i].status \in {"completed", "timeout"}
        /\ db.ist.topics_state[i].timeLeft = 0)
       => /\ i \in DOMAIN db'.ist.topics_state
          /\ db'.ist.topics_state[i].status \in {"completed", "timeout"}
          /\ db'.ist.topics_state[i].timeLeft = 0]_vars

\* an interview waits on the transition screen of a session without
\* deadline: the participant is in no terminal status
C40_WaitingInTransition ==
  /\ db.ist.created
  /\ db.ass.ends_at = NULL
  /\ db.sp.status = "interview_in_progress"
  /\ db.ist.current_phase = "topic_transition"

\* C40: when the requests of a participant cease for ever while the worker
\* keeps ticking, the participant does not stay for ever in a non-terminal
\* state such as the one of the transition screen
C40_SilentParticipantEnds ==
  <>[][WorkerTick \/ Advance \/ LongSilence]_vars
    => []<>(~C40_WaitingInTransition)

====
